---- MODULE Spec2Model ----
(***************************************************************************)
(* Model of streamlit_app.py: the login gate, the rate-limit probe, the    *)
(* per-record analyzer (5 chat-completion POSTs under a tenacity retry     *)
(* decorator), the batch loop and the session state that holds results.    *)
(*                                                                         *)
(* A script run starts from pc = "idle" with one user event and executes   *)
(* main() to its end.  Runs that call the provider are split at every      *)
(* outgoing HTTP call, so that the answer of the provider is an input of   *)
(* the step that receives it.  Execution is single-threaded: while a run   *)
(* is in progress no other action is enabled.                              *)
(***************************************************************************)
EXTENDS Integers, Sequences, FiniteSets, TLC

\* ---------------------------------------------------------------- bounds
\* Longest organic_results list of an uploaded document.
MaxRecords == 2

\* ------------------------------------------------------ program constants
\* stop=stop_after_attempt(3)
StopAfterAttempt == 3

\* The five fixed prompts of analyze_ad_copy, in list order.
prompts ==
    << "Analyze the headline effectiveness and keyword usage in this ad.",
       "Evaluate the description's informativeness and persuasiveness.",
       "Assess the call-to-action strength and unique selling proposition.",
       "Analyze the ad's relevance to search intent and emotional appeal.",
       "Provide improvement suggestions and key takeaways from this ad." >>

NumPrompts == Len(prompts)

\* Python's None.
None == [none |-> TRUE]

\* ------------------------------------------------------------ input sets
\* st.secrets["login_username"], st.secrets["login_password"]
SecretUsername == "admin"

SecretPassword == "s3cret"

Usernames == {"admin", "guest"}

Passwords == {"s3cret", "wrong"}

\* Values of the search-term text input ("" is the widget's default).
SearchTerms == {"", "widgets"}

\* Elements of organic_results that carry the three columns.
Ads ==
    { [title |-> "Buy Widgets", snippet |-> "Best widgets online",
       displayed_link |-> "widgets.com"],
      [title |-> "Cheap Gadgets", snippet |-> "Gadgets on sale",
       displayed_link |-> "gadgets.com"] }

\* An element of organic_results without title, snippet or displayed_link.
BareResult == [position |-> 1]

RECURSIVE SeqsUpTo(_, _)
SeqsUpTo(S, n) ==
    IF n = 0 THEN {<< >>}
    ELSE LET shorter == SeqsUpTo(S, n - 1)
         IN  shorter \cup { Append(s, x) : s \in shorter, x \in S }

\* Uploaded files: one that is not JSON, documents whose organic_results
\* are ads (the empty list included), and one whose single result has none
\* of the columns process_dataframe reads.
Documents ==
    { [json_ok |-> FALSE, organic_results |-> << >>] }
      \cup { [json_ok |-> TRUE, organic_results |-> s] :
                 s \in SeqsUpTo(Ads, MaxRecords) }
      \cup { [json_ok |-> TRUE, organic_results |-> << BareResult >>] }

\* Answers of GET /api/v1/auth/key.  body is "garbage" when response.json()
\* or the ['data']['rate_limit'] lookups raise; otherwise it holds the two
\* values found there (requests may be JSON null).
ProbeBodies ==
    { [shape |-> "garbage", requests |-> None, interval |-> None],
      [shape |-> "rate_limit", requests |-> [int |-> 10], interval |-> [str |-> "10s"]],
      [shape |-> "rate_limit", requests |-> None, interval |-> [str |-> "10s"]] }

ProbeResponses ==
    { [exc |-> TRUE, status |-> 0, body |-> b] :
          b \in { [shape |-> "garbage", requests |-> None, interval |-> None] } }
      \cup { [exc |-> FALSE, status |-> s, body |-> b] :
                 s \in {200, 429}, b \in ProbeBodies }

\* Answers of POST /api/v1/chat/completions: a transport exception raised by
\* requests.post, or a status with a body that either has
\* choices[0].message.content or does not.
PostResponses ==
    { [exc |-> TRUE, status |-> 0, wellformed |-> FALSE] }
      \cup { [exc |-> FALSE, status |-> s, wellformed |-> w] :
                 s \in {200, 500}, w \in BOOLEAN }

\* ------------------------------------------------------------- variables
VARIABLES
    logged_in,      \* st.session_state.logged_in
    results,        \* st.session_state.results: None or a DataFrame [rows |-> ...]
    uploaded_file,  \* value of the file_uploader widget: None or a document
    search_term,    \* value of the search-term text input
    pc,             \* position of the script run: "idle" between runs
    msg,            \* last st.error / st.success emitted by the current run
    rate_limit,     \* main: first value returned by check_rate_limits
    interval,       \* main: second value returned by check_rate_limits
    row_no,         \* process_dataframe: 1-based position of the current row
    batch_results,  \* process_dataframe: the local list `results`
    results_df,     \* main: DataFrame returned by process_dataframe
    prompt_no,      \* analyze_ad_copy: 1-based position in `prompts`
    full_analysis,  \* analyze_ad_copy: accumulator, a sequence of text pieces
    analysis,       \* process_dataframe: value returned by analyze_ad_copy
    attempt,        \* tenacity: attempt number of the current analyze call
    \* -- observations of the current run (no counterpart in the code) --
    run_logged_in,  \* logged_in when the run started
    run_results,    \* session results when the run started
    probe,          \* answer the rate-limit probe got in this run, or None
    batch_invoked,  \* process_dataframe was called in this run
    terminated,     \* the run ended in main's `except Exception` handler
    stored,         \* line 160 assigned session results in this run
    posts,          \* chat-completion POSTs issued in this run
    sleeps,         \* time.sleep(1) calls since the latest POST of this run
    gap,            \* value of sleeps when the latest POST was issued
    calls,          \* POSTs issued for the current record, as prompt numbers
    last_exc,       \* exception raised by the latest POST step, or "none"
    history         \* per finished record: its POSTs, outcome and notifications

session == << logged_in, results >>

widgets == << uploaded_file, search_term >>

locals ==
    << rate_limit, interval, row_no, batch_results, results_df, prompt_no,
       full_analysis, analysis, attempt >>

observed ==
    << run_logged_in, run_results, probe, batch_invoked, terminated, stored,
       posts, sleeps, gap, calls, last_exc, history >>

vars == << session, widgets, pc, msg, locals, observed >>

\* ---------------------------------------------------------- pure helpers
authenticate(username, password) ==
    username = SecretUsername /\ password = SecretPassword

\* check_rate_limits without the status test: any answer whose body can be
\* read yields its values.
check_rate_limits_any_status(resp) ==
    IF resp.exc \/ resp.body.shape = "garbage"
    THEN [requests |-> None, interval |-> None, error |-> "Error checking rate limits"]
    ELSE [requests |-> resp.body.requests,
          interval |-> resp.body.interval, error |-> "none"]

\* check_rate_limits returning (0, 0) instead of (None, None) on failure.
check_rate_limits_zero_on_failure(resp) ==
    IF ~resp.exc /\ resp.status = 200 /\ resp.body.shape = "rate_limit"
    THEN [requests |-> resp.body.requests,
          interval |-> resp.body.interval, error |-> "none"]
    ELSE [requests |-> [int |-> 0], interval |-> [int |-> 0],
          error |-> IF ~resp.exc /\ resp.status # 200
                    THEN "Failed to check rate limits"
                    ELSE "Error checking rate limits"]

\* check_rate_limits as a function of the answer it gets: the returned pair
\* and the st.error it emits ("none" when it emits nothing).
check_rate_limits(resp) ==
    IF resp.exc
    THEN [requests |-> None, interval |-> None, error |-> "Error checking rate limits"]
    ELSE IF resp.status = 200
         THEN IF resp.body.shape = "garbage"
              THEN [requests |-> None, interval |-> None,
                    error |-> "Error checking rate limits"]
              ELSE [requests |-> resp.body.requests,
                    interval |-> resp.body.interval, error |-> "none"]
         ELSE [requests |-> None, interval |-> None,
               error |-> "Failed to check rate limits"]

\* main without the gate.
ProbeGateNeverReturns(rl) == FALSE

\* main: `if rate_limit is None: return`
ProbeGateReturns(rl) == rl = None

\* json_to_dataframe: one row per element of organic_results.
json_to_dataframe(doc) == doc.organic_results

\* row['title'], row['snippet'], row['displayed_link'] raise KeyError when
\* the frame has no such column.
HasColumns(row) == {"title", "snippet", "displayed_link"} \subseteq DOMAIN row

\* The f-string of process_dataframe, as its pieces.
AdCopy(row) ==
    << "Title: ", row.title, "\nSnippet: ", row.snippet,
       "\nDisplay URL: ", row.displayed_link >>

\* A piece of text: a literal, or the message content the provider returned
\* for one request (named by the request's ad copy, search term and prompt).
Literal(s) == [literal |-> s, ad_copy |-> << >>, term |-> "", prompt |-> ""]

Content(ad_copy, term, prompt) ==
    [literal |-> "", ad_copy |-> ad_copy, term |-> term, prompt |-> prompt]

\* full_analysis += content + "\n\n"
Accumulate(acc, content) == acc \o << content, Literal("\n\n") >>

\* response.raise_for_status(): HTTPError for 4xx and 5xx.
RaisesForStatus(status) == 400 <= status /\ status < 600

\* The exception lines 52-76 raise on an answer, or "none".
ExceptionOf(resp) ==
    IF resp.exc THEN "ConnectionError"
    ELSE IF RaisesForStatus(resp.status) THEN "HTTPError"
    ELSE IF ~resp.wellformed THEN "KeyError"
    ELSE "none"

\* A handler that lets the exceptions of requests through (to tenacity).
CaughtUnlessRequestException(exc) == exc = "KeyError"

\* A handler narrowed to `except requests.exceptions.RequestException`.
CaughtOnlyRequestException(exc) == exc \in {"ConnectionError", "HTTPError"}

\* `except Exception as e:` inside the prompt loop catches every exception
\* the try block raises.
CaughtInLoop(exc) == exc \in {"ConnectionError", "HTTPError", "KeyError"}

\* A handler that returns what was accumulated so far.
ReturnPartialText(acc) == [text |-> acc]

\* What the handler of the prompt loop returns: `return None`.
ReturnOnError(acc) == None

\* retry=retry_if_exception_type(requests.exceptions.RequestException);
\* HTTPError and ConnectionError are subclasses, KeyError is not.
RetryIf(exc) == exc \in {"ConnectionError", "HTTPError"}

\* process_dataframe appending a row whatever the analysis is.
AppendAlways(rows, row, a) ==
    Append(rows, [title |-> row.title, snippet |-> row.snippet,
                  displayed_link |-> row.displayed_link, analysis |-> a])

\* process_dataframe: append a result row only `if analysis is not None`.
AppendResult(rows, row, a) ==
    IF a # None
    THEN Append(rows, [title |-> row.title, snippet |-> row.snippet,
                       displayed_link |-> row.displayed_link, analysis |-> a])
    ELSE rows

\* The sleep of line 102 moved into the success branch.
SleepOnlyAfterSuccess(a) == IF a # None THEN 1 ELSE 0

\* Number of time.sleep(1) calls at the end of a loop iteration of
\* process_dataframe (line 102 is outside the if/else).
SleepAfterRecord(a) == 1

\* Number of time.sleep(1) calls after a prompt whose call succeeded.
SleepAfterPrompt == 1

\* Logout that resets the flag only.
ResultsKeptAtLogout(old) == old

\* Logout: st.session_state.results = None
ResultsAfterLogout(old) == None

\* Line 160: st.session_state.results = results_df
ResultsAfterBatch(old, df) == df

\* The frame main builds from the uploaded file.
df == json_to_dataframe(uploaded_file)

\* What a render of the page below the login gate reports (lines 141-181
\* with no button pressed): json.load raises on a file that is not JSON and
\* main's handler turns it into an error message.
PageMessage(file, term) ==
    IF file # None /\ term # "" /\ ~file.json_ok
    THEN "An error occurred while processing the file"
    ELSE "none"

\* ------------------------------------------------------------------ Init
\* Lines 120-123: a new session is logged out and has no results.
Init ==
    /\ logged_in = FALSE
    /\ results = None
    /\ uploaded_file = None
    /\ search_term = ""
    /\ pc = "idle"
    /\ msg = "none"
    /\ rate_limit = None
    /\ interval = None
    /\ row_no = 0
    /\ batch_results = << >>
    /\ results_df = None
    /\ prompt_no = 0
    /\ full_analysis = << >>
    /\ analysis = None
    /\ attempt = 0
    /\ run_logged_in = FALSE
    /\ run_results = None
    /\ probe = None
    /\ batch_invoked = FALSE
    /\ terminated = FALSE
    /\ stored = FALSE
    /\ posts = 0
    /\ sleeps = 0
    /\ gap = 0
    /\ calls = << >>
    /\ last_exc = "none"
    /\ history = << >>

\* A script run starts: main's locals are fresh and the observations of the
\* previous run are forgotten.
BeginRun ==
    /\ rate_limit' = None
    /\ interval' = None
    /\ row_no' = 0
    /\ batch_results' = << >>
    /\ results_df' = None
    /\ prompt_no' = 0
    /\ full_analysis' = << >>
    /\ analysis' = None
    /\ attempt' = 0
    /\ run_logged_in' = logged_in
    /\ run_results' = results
    /\ probe' = None
    /\ batch_invoked' = FALSE
    /\ terminated' = FALSE
    /\ stored' = FALSE
    /\ posts' = 0
    /\ sleeps' = 0
    /\ gap' = 0
    /\ calls' = << >>
    /\ last_exc' = "none"
    /\ history' = << >>

\* --------------------------------------------------------------- actions
\* The login form is submitted (lines 126-138).  A successful login sets the
\* flag and calls st.rerun(); a failed one reports and returns.
SubmitLogin(username, password) ==
    /\ pc = "idle"
    /\ ~logged_in
    /\ BeginRun
    /\ IF authenticate(username, password)
       THEN /\ logged_in' = TRUE
            /\ pc' = "rerun"
            /\ msg' = "none"
       ELSE /\ logged_in' = FALSE
            /\ pc' = "idle"
            /\ msg' = "Invalid username or password"
    /\ UNCHANGED << results, widgets >>

\* The run st.rerun() starts: main from the top with the session state the
\* previous run left.  Logged out it shows the login form and returns at
\* line 138; logged in it renders the page.
Rerun ==
    /\ pc = "rerun"
    /\ BeginRun
    /\ msg' = IF logged_in THEN PageMessage(uploaded_file, search_term) ELSE "none"
    /\ pc' = "idle"
    /\ UNCHANGED << session, widgets >>

\* A file is chosen or removed in the uploader (line 141); the run renders
\* the page.
UploadFile(file) ==
    /\ pc = "idle"
    /\ logged_in
    /\ file # uploaded_file
    /\ BeginRun
    /\ uploaded_file' = file
    /\ msg' = PageMessage(file, search_term)
    /\ UNCHANGED << session, search_term, pc >>

\* The search term is edited (line 142); the run renders the page.
EnterSearchTerm(term) ==
    /\ pc = "idle"
    /\ logged_in
    /\ term # search_term
    /\ BeginRun
    /\ search_term' = term
    /\ msg' = PageMessage(uploaded_file, term)
    /\ UNCHANGED << session, uploaded_file, pc >>

\* "Analyze Ads" is pressed.  The button exists only when a file and a term
\* are present and the file parsed (lines 144-152); the run is then about to
\* call check_rate_limits.
ClickAnalyze ==
    /\ pc = "idle"
    /\ logged_in
    /\ uploaded_file # None
    /\ search_term # ""
    /\ uploaded_file.json_ok
    /\ BeginRun
    /\ pc' = "probe"
    /\ msg' = "none"
    /\ UNCHANGED << session, widgets >>

\* Lines 154-156: the probe is answered, its result is unpacked and gated.
\* Past the gate process_dataframe is entered (results = [], first row).
CheckRateLimits ==
    /\ pc = "probe"
    /\ \E resp \in ProbeResponses :
         LET r == check_rate_limits(resp)
         IN  /\ probe' = resp
             /\ rate_limit' = r.requests
             /\ interval' = r.interval
             /\ msg' = r.error
             /\ IF ProbeGateReturns(r.requests)
                THEN /\ pc' = "idle"
                     /\ UNCHANGED << batch_invoked, row_no >>
                ELSE /\ pc' = "loop"
                     /\ batch_invoked' = TRUE
                     /\ row_no' = 1
    /\ UNCHANGED << session, widgets, batch_results, results_df, prompt_no,
                    full_analysis, analysis, attempt, run_logged_in,
                    run_results, terminated, stored, posts, sleeps, gap,
                    calls, last_exc, history >>

\* Lines 87-89: the loop takes the next row, builds ad_copy and enters
\* analyze_ad_copy (first attempt, first prompt, empty accumulator).  A row
\* without the columns raises KeyError, which nothing catches before main's
\* handler at line 180: the run reports it and ends.
NextRow ==
    /\ pc = "loop"
    /\ row_no <= Len(df)
    /\ IF HasColumns(df[row_no])
       THEN /\ pc' = "post"
            /\ prompt_no' = 1
            /\ full_analysis' = << >>
            /\ attempt' = 1
            /\ calls' = << >>
            /\ UNCHANGED << msg, terminated >>
       ELSE /\ pc' = "idle"
            /\ terminated' = TRUE
            /\ msg' = "An error occurred while processing the file"
            /\ UNCHANGED << prompt_no, full_analysis, attempt, calls >>
    /\ UNCHANGED << session, widgets, rate_limit, interval, row_no,
                    batch_results, results_df, analysis, run_logged_in,
                    run_results, probe, batch_invoked, stored, posts, sleeps,
                    gap, last_exc, history >>

\* One pass of the prompt loop (lines 50-81) on the answer to its POST,
\* under the retry decorator of lines 34-38.  A good answer is accumulated,
\* followed by the sleep of line 81, and after the last prompt line 83
\* returns the accumulator.  An exception the loop's handler catches is
\* reported and makes the function return at line 79.  An exception that
\* left the function would reach tenacity, which calls the function again
\* from its first line while RetryIf holds and attempts remain, and lets
\* the exception go otherwise; past process_dataframe it ends in main's
\* handler.
PostPrompt ==
    /\ pc = "post"
    /\ \E resp \in PostResponses :
         LET exc == ExceptionOf(resp)
             content == Content(AdCopy(df[row_no]), search_term, prompts[prompt_no])
         IN  /\ posts' = posts + 1
             /\ calls' = Append(calls, prompt_no)
             /\ gap' = sleeps
             /\ last_exc' = exc
             /\ IF exc = "none"
                THEN /\ full_analysis' = Accumulate(full_analysis, content)
                     /\ sleeps' = SleepAfterPrompt
                     /\ IF prompt_no = NumPrompts
                        THEN /\ analysis' = [text |-> full_analysis']
                             /\ pc' = "rec_end"
                             /\ UNCHANGED prompt_no
                        ELSE /\ prompt_no' = prompt_no + 1
                             /\ pc' = "post"
                             /\ UNCHANGED analysis
                     /\ UNCHANGED << msg, attempt, terminated >>
                ELSE IF CaughtInLoop(exc)
                THEN /\ msg' = "Error analyzing ad copy"
                     /\ analysis' = ReturnOnError(full_analysis)
                     /\ pc' = "rec_end"
                     /\ sleeps' = 0
                     /\ UNCHANGED << full_analysis, prompt_no, attempt, terminated >>
                ELSE IF RetryIf(exc) /\ attempt < StopAfterAttempt
                THEN /\ attempt' = attempt + 1
                     /\ prompt_no' = 1
                     /\ full_analysis' = << >>
                     /\ pc' = "post"
                     /\ sleeps' = 0
                     /\ UNCHANGED << msg, analysis, terminated >>
                ELSE /\ terminated' = TRUE
                     /\ msg' = "An error occurred while processing the file"
                     /\ pc' = "idle"
                     /\ sleeps' = 0
                     /\ UNCHANGED << full_analysis, prompt_no, attempt, analysis >>
    /\ UNCHANGED << session, widgets, rate_limit, interval, row_no,
                    batch_results, results_df, run_logged_in, run_results,
                    probe, batch_invoked, stored, history >>

\* Lines 91-102: the row is appended when the analysis is not None, the
\* outcome is announced, and the loop sleeps before the next row.
FinishRecord ==
    /\ pc = "rec_end"
    /\ batch_results' = AppendResult(batch_results, df[row_no], analysis)
    /\ msg' = IF analysis # None THEN "Successfully analyzed ad"
                                 ELSE "Failed to analyze ad"
    /\ sleeps' = sleeps + SleepAfterRecord(analysis)
    /\ history' = Append(history,
                         [calls |-> calls, analysis |-> analysis,
                          error_shown |-> (msg = "Error analyzing ad copy"),
                          note |-> msg', slept |-> SleepAfterRecord(analysis)])
    /\ last_exc' = "none"
    /\ row_no' = row_no + 1
    /\ pc' = "loop"
    /\ UNCHANGED << session, widgets, rate_limit, interval, results_df,
                    prompt_no, full_analysis, analysis, attempt,
                    run_logged_in, run_results, probe, batch_invoked,
                    terminated, stored, posts, gap, calls >>

\* Line 104: the rows are exhausted and process_dataframe returns the frame.
ReturnFrame ==
    /\ pc = "loop"
    /\ row_no > Len(df)
    /\ results_df' = [rows |-> batch_results]
    /\ pc' = "store"
    /\ UNCHANGED << session, widgets, msg, rate_limit, interval, row_no,
                    batch_results, prompt_no, full_analysis, analysis,
                    attempt, observed >>

\* Lines 160-162: the frame replaces the session's results and the run
\* announces completion; the rest of the run displays them.
StoreResults ==
    /\ pc = "store"
    /\ results' = ResultsAfterBatch(results, results_df)
    /\ stored' = TRUE
    /\ msg' = "Analysis complete"
    /\ pc' = "idle"
    /\ UNCHANGED << logged_in, widgets, locals, run_logged_in, run_results,
                    probe, batch_invoked, terminated, posts, sleeps, gap,
                    calls, last_exc, history >>

\* The sidebar button of line 184 is on the page when the latest run reached
\* that line, which every logged-in run does except the one that returned
\* at line 156.
LogoutRendered == ~(probe # None /\ ProbeGateReturns(rate_limit))

\* "Logout" is pressed (lines 184-187): the run renders the page, resets the
\* flag and the results, and calls st.rerun().
ClickLogout ==
    /\ pc = "idle"
    /\ logged_in
    /\ LogoutRendered
    /\ BeginRun
    /\ msg' = PageMessage(uploaded_file, search_term)
    /\ logged_in' = FALSE
    /\ results' = ResultsAfterLogout(results)
    /\ pc' = "rerun"
    /\ UNCHANGED widgets

Next ==
    \/ \E u \in Usernames, p \in Passwords : SubmitLogin(u, p)
    \/ Rerun
    \/ \E f \in Documents \cup {None} : UploadFile(f)
    \/ \E t \in SearchTerms : EnterSearchTerm(t)
    \/ ClickAnalyze
    \/ CheckRateLimits
    \/ NextRow
    \/ PostPrompt
    \/ FinishRecord
    \/ ReturnFrame
    \/ StoreResults
    \/ ClickLogout

Spec == Init /\ [][Next]_vars

\* ------------------------------------------------- vocabulary of the claims
InBatch == pc \in {"loop", "post", "rec_end", "store"}

\* The prompt numbers 1..n in order.
FirstPrompts(n) == [k \in 1..n |-> k]

\* The five message contents of one ad in prompt order, each followed by the
\* blank-line separator.
CompleteAnalysis(row, term) ==
    [text |-> [k \in 1..(2 * NumPrompts) |->
                 IF k % 2 = 1
                 THEN Content(AdCopy(row), term, prompts[(k + 1) \div 2])
                 ELSE Literal("\n\n")]]

\* A result row whose analysis is the complete analysis of its own ad.
CompleteRow(r) ==
    \E ad \in Ads, t \in SearchTerms \ {""} :
        r = [title |-> ad.title, snippet |-> ad.snippet,
             displayed_link |-> ad.displayed_link,
             analysis |-> CompleteAnalysis(ad, t)]

RowsOf(frame) == IF frame = None THEN << >> ELSE frame.rows

\* The rows of the first n records whose analysis was not None, in input
\* order, as the history of the run tells them.
RECURSIVE SucceededRows(_)
SucceededRows(n) ==
    IF n = 0 THEN << >>
    ELSE IF history[n].analysis # None
         THEN Append(SucceededRows(n - 1),
                     [title |-> df[n].title, snippet |-> df[n].snippet,
                      displayed_link |-> df[n].displayed_link,
                      analysis |-> history[n].analysis])
         ELSE SucceededRows(n - 1)

RECURSIVE CallsIn(_)
CallsIn(n) == IF n = 0 THEN 0 ELSE CallsIn(n - 1) + Len(history[n].calls)

ProbeFailed == probe # None /\ (probe.exc \/ probe.status # 200)

ProbeErrors == {"Error checking rate limits", "Failed to check rate limits"}

AllRowsHaveColumns ==
    uploaded_file # None /\ \A k \in 1..Len(df) : HasColumns(df[k])

C2_SucceededInOrder ==
    /\ InBatch => /\ Len(history) <= Len(df)
                  /\ batch_results = SucceededRows(Len(history))
    /\ pc = "store" =>
          /\ Len(history) = Len(df)
          /\ results_df = [rows |-> SucceededRows(Len(df))]
          /\ Len(results_df.rows) <= Len(df)

\* The frame is returned for a batch whose first record failed and whose
\* second record succeeded.
C2_Witness ==
    /\ pc = "store"
    /\ Len(df) >= 2
    /\ history[1].analysis = None
    /\ history[2].analysis # None

\* ------------------------------------------------------------------- C3
\* C3: the calls of a record are issued in prompt order; 5 calls when all
\* succeed; when call j is the first to fail exactly j calls were made and
\* none follows for that record: the function is entered once per record and
\* every POST of the run belongs to the calls counted for its record.
C3_CallsPerRecord ==
    /\ pc \in {"post", "rec_end"} =>
          /\ attempt = 1
          /\ calls = FirstPrompts(Len(calls))
          /\ Len(calls) <= NumPrompts
          /\ posts = CallsIn(Len(history)) + Len(calls)
    /\ pc = "rec_end" =>
          /\ analysis # None => Len(calls) = NumPrompts
          /\ analysis = None =>
                /\ Len(calls) = prompt_no
                /\ Len(full_analysis) = 2 * (prompt_no - 1)
    /\ pc \in {"loop", "store"} => posts = CallsIn(Len(history))
    /\ \A k \in 1..Len(history) :
          /\ history[k].calls = FirstPrompts(Len(history[k].calls))
          /\ Len(history[k].calls) \in 1..NumPrompts
          /\ history[k].analysis # None => Len(history[k].calls) = NumPrompts

\* A record failed on its second call and the run is already issuing the
\* calls of the next record.
C3_Witness ==
    /\ pc = "post"
    /\ Len(history) >= 1
    /\ history[Len(history)].analysis = None
    /\ Len(history[Len(history)].calls) = 2
    /\ Len(calls) >= 1

\* ------------------------------------------------------------------- C4
\* C4: a call that fails with a transport-level exception is retried, up to
\* 3 attempts in total, before the record is given up; a call that fails
\* with a non-2xx answer is not retried.  So a record given up on a
\* transport exception has used all its attempts, and one given up on an
\* HTTP error has used one.
C4_TransportRetried ==
    pc = "rec_end" /\ analysis = None =>
        /\ last_exc = "ConnectionError" => attempt = StopAfterAttempt
        /\ last_exc = "HTTPError" => attempt = 1

\* ------------------------------------------------------------------- C5
\* C5: when the probe gets a non-200 status or raises, the batch is aborted
\* before it starts: process_dataframe is not invoked, no POST is issued,
\* no rows are produced and the run is over.
C5_ProbeGate ==
    ProbeFailed =>
        /\ ~batch_invoked
        /\ posts = 0
        /\ pc = "idle"
        /\ batch_results = << >>
        /\ results_df = None
        /\ ~stored

\* The probe was answered 429 in a session that holds earlier results.
C5_Witness ==
    /\ probe # None
    /\ ~probe.exc
    /\ probe.status = 429
    /\ results # None

\* ------------------------------------------------------------------- C6
\* C6 as stated: check_rate_limits returns two present values on every HTTP
\* 200 answer, returns (None, None) with an error message only on a non-200
\* status or a transport failure, and an Analyze action whose probe was
\* answered 200 always runs the batch.
C6_PresentOnEvery200 ==
    probe # None =>
        /\ (~probe.exc /\ probe.status = 200) =>
              /\ rate_limit # None
              /\ interval # None
              /\ batch_invoked
        /\ (rate_limit = None /\ interval = None) =>
              /\ msg \in ProbeErrors
              /\ ProbeFailed

\* C6 as amended: on an HTTP 200 answer whose body holds
\* data.rate_limit.requests and .interval the two values are returned as
\* they are and no error is shown; on a non-200 status, a transport failure
\* or a 200 answer whose body cannot be read (None, None) is returned and an
\* error is shown; the batch runs exactly when the first returned value is
\* present.
C6_ValuesOfReadable200 ==
    probe # None =>
        /\ (~probe.exc /\ probe.status = 200 /\ probe.body.shape = "rate_limit") =>
              /\ rate_limit = probe.body.requests
              /\ interval = probe.body.interval
              /\ ~batch_invoked => msg = "none"
        /\ (ProbeFailed \/ probe.body.shape = "garbage") =>
              /\ rate_limit = None
              /\ interval = None
              /\ msg \in ProbeErrors
              /\ pc = "idle"
        /\ batch_invoked <=> (rate_limit # None)

\* The probe was answered 200 with a body that cannot be read: the pair is
\* absent and the batch did not run.
C6_Witness ==
    /\ probe # None
    /\ ~probe.exc
    /\ probe.status = 200
    /\ probe.body.shape = "garbage"
    /\ rate_limit = None
    /\ ~batch_invoked

C8_SleepBetweenPosts ==
    /\ posts >= 2 => gap >= 1
    /\ (pc = "post" /\ posts >= 1) => sleeps >= 1
    /\ \A k \in 1..Len(history) : history[k].slept = 1

\* The first call of the second record was issued right after the first
\* record failed.
C8_Witness ==
    /\ pc = "post"
    /\ Len(history) = 1
    /\ history[1].analysis = None
    /\ Len(calls) = 1
    /\ gap = 1

\* ------------------------------------------------------------------- C9
\* C9: while logged out the session holds no results; a run that starts
\* logged out issues no probe and no POST, never enters the batch and leaves
\* the results as they were.
C9_LoggedOutHoldsNothing ==
    /\ ~logged_in => results = None
    /\ ~run_logged_in =>
          /\ probe = None
          /\ posts = 0
          /\ ~batch_invoked
          /\ pc \in {"idle", "rerun"}
          /\ results = run_results

\* Logout was pressed in a session that held results.
C9_Witness ==
    /\ ~logged_in
    /\ run_logged_in
    /\ run_results # None

\* ------------------------------------------------------------------ C10
\* C10: the stored results change only as a whole: to the frame returned by
\* a batch that processed every record after a probe answered 200, or to
\* None at logout.  Every other step, among them a failed probe, a run that
\* ends in main's exception handler, an upload and a change of the search
\* term, leaves them as they were.
C10_ResultsReplacedWhole ==
    [][ results' # results =>
          \/ /\ pc = "store"
             /\ ~ProbeFailed
             /\ Len(history) = Len(df)
             /\ results' = results_df
             /\ results_df = [rows |-> SucceededRows(Len(df))]
          \/ /\ logged_in
             /\ ~logged_in'
             /\ results' = None ]_vars

\* A batch ended in main's exception handler in a session that holds the
\* results of an earlier batch.
C10_Witness ==
    /\ terminated
    /\ pc = "idle"
    /\ results # None
    /\ results = run_results

====
